---- MODULE Spec2Model ----
(***************************************************************************)
(* hypertor: an HTTP/1.1 client whose connections are routed through Tor   *)
(* and optionally wrapped in TLS (src/src/lib.rs).                         *)
(*                                                                         *)
(* The model follows one caller task that issues calls on one Client, one  *)
(* after the other, and the detached connection-driver tasks those calls   *)
(* spawn, which run concurrently with the caller.  Every action is one     *)
(* synchronous segment of the code between two await points; the result of *)
(* the awaited external operation (Tor connect, TLS connect, hyper         *)
(* handshake, hyper send_request, the Connection future) is chosen by \E.  *)
(*                                                                         *)
(* Spec calls send_request with requests of any headers; SpecApi calls     *)
(* get, head and post; SpecFair adds the fairness of the runtime;          *)
(* SpecConcurrent has a second caller task on the same Client; SpecBuild   *)
(* is the construction of the config and of the Client.                    *)
(*                                                                         *)
(* Text (URI authority, header values) is a sequence of one-character      *)
(* strings, so that parsing and formatting are computed.                   *)
(***************************************************************************)
EXTENDS Integers, Sequences, FiniteSets, TLC

\* ------------------------------------------------------------------ bounds

\* calls the caller task issues on the Client in one behaviour
MaxCalls == 2
\* headers of a request handed to send_request directly
MaxHeaders == 2

\* ------------------------------------------------------------- vocabulary

\* Option<T>: Some(x) or NoneV
Some(x) == <<x>>
NoneV == <<>>
IsSome(o) == o # <<>>
Unwrap(o) == o[1]

\* hyper::http::uri::Scheme
HTTPS == "https"
HTTP == "http"
FTP == "ftp"

\* hyper::header names (HeaderName is lower case by construction)
HOST == "host"
CONTENT_TYPE == "content-type"
ACCEPT == "accept"

Digits == <<"0", "1", "2", "3", "4", "5", "6", "7", "8", "9">>

\* bytes HeaderValue::from_str rejects (anything not visible ASCII), by name
ControlChars == {"NUL", "CR", "LF", "DEL"}

\* value of a decimal digit character
DigitValue(ch) == (CHOOSE d \in 1..10 : Digits[d] = ch) - 1

RECURSIVE ParseDecimal(_)
\* the number a sequence of digit characters denotes
ParseDecimal(s) ==
    IF s = <<>> THEN 0
    ELSE ParseDecimal(SubSeq(s, 1, Len(s) - 1)) * 10 + DigitValue(s[Len(s)])

\* positions of character ch in text s
Positions(s, ch) == {i \in 1..Len(s) : s[i] = ch}

Max(S) == CHOOSE x \in S : \A y \in S : y <= x

\* ---------------------------------------------------------------- the URI

\* authority text of the URIs the caller uses: host, host:port
AuthorityTexts ==
    { <<"h">>,
      <<"h", ":", "8", "1">> }

\* hyper::Uri: a scheme with an authority, an authority alone, or neither
\* (a path-only URI); the http crate builds no URI with a scheme and no authority
Uris ==
    [scheme : {Some(HTTPS), Some(HTTP), Some(FTP), NoneV},
     authority : {Some(a) : a \in AuthorityTexts}]
        \cup {[scheme |-> NoneV, authority |-> NoneV]}
        \cup {[scheme |-> Some(HTTPS), authority |-> Some(<<"u", "@", "h">>)]}

\* Uri::authority
UriAuthority(uri) == uri.authority

\* the authority text after its userinfo ("user@"), if any
AfterUserinfo(a) ==
    IF Positions(a, "@") = {} THEN a
    ELSE SubSeq(a, Max(Positions(a, "@")) + 1, Len(a))

\* Uri::host: the authority without userinfo and port
UriHost(uri) ==
    IF ~IsSome(uri.authority) THEN NoneV
    ELSE LET hp == AfterUserinfo(Unwrap(uri.authority))
         IN  IF Positions(hp, ":") = {} THEN Some(hp)
             ELSE Some(SubSeq(hp, 1, Max(Positions(hp, ":")) - 1))

\* Uri::port_u16: the number after the last ':' of the authority
UriPortU16(uri) ==
    IF ~IsSome(uri.authority) THEN NoneV
    ELSE LET hp == AfterUserinfo(Unwrap(uri.authority))
         IN  IF Positions(hp, ":") = {} THEN NoneV
             ELSE Some(ParseDecimal(SubSeq(hp, Max(Positions(hp, ":")) + 1, Len(hp))))

\* Uri::scheme
UriScheme(uri) == uri.scheme

\* the schemes by their text
SchemeTexts ==
    { <<HTTPS, <<"h", "t", "t", "p", "s">> >>,
      <<HTTP, <<"h", "t", "t", "p">> >>,
      <<FTP, <<"f", "t", "p">> >> }

\* Scheme of a scheme text
SchemeNamed(text) ==
    IF \E p \in SchemeTexts : p[2] = text
    THEN (CHOOSE p \in SchemeTexts : p[2] = text)[1]
    ELSE "other"

\* characters no part of a URI may hold
InvalidUriChars == {" ", "NUL", "CR", "LF", "DEL"}

\* positions where "://" starts in text
SchemeEnds(text) ==
    {i \in 1..Len(text) - 2 :
        text[i] = ":" /\ text[i + 1] = "/" /\ text[i + 2] = "/"}

\* text up to, not including, the first "/"
UpToSlash(text) ==
    IF Positions(text, "/") = {} THEN text
    ELSE SubSeq(text, 1, (CHOOSE i \in Positions(text, "/") :
                            \A j \in Positions(text, "/") : i <= j) - 1)

\* Uri::try_from(text): the text behind a leading "/" is a path; otherwise
\* the text is scheme "://" authority path, or an authority alone
ParseUri(text) ==
    IF text = <<>> \/ \E i \in 1..Len(text) : text[i] \in InvalidUriChars
    THEN [ok |-> FALSE, uri |-> NoneV]
    ELSE IF text[1] = "/"
    THEN [ok |-> TRUE, uri |-> Some([scheme |-> NoneV, authority |-> NoneV])]
    ELSE IF SchemeEnds(text) # {}
    THEN LET e == CHOOSE i \in SchemeEnds(text) : \A j \in SchemeEnds(text) : i <= j
             auth == UpToSlash(SubSeq(text, e + 3, Len(text)))
         IN  IF e = 1 \/ auth = <<>>
             THEN [ok |-> FALSE, uri |-> NoneV]
             ELSE [ok |-> TRUE,
                   uri |-> Some([scheme |-> Some(SchemeNamed(SubSeq(text, 1, e - 1))),
                                 authority |-> Some(auth)])]
    ELSE IF UpToSlash(text) # text
    THEN [ok |-> FALSE, uri |-> NoneV]
    ELSE [ok |-> TRUE, uri |-> Some([scheme |-> NoneV, authority |-> Some(text)])]

\* ------------------------------------------------------------ the headers

\* HeaderMap: one entry per name, in the order the names were first
\* inserted, each with its values in the order they were appended
EmptyHeaderMap == <<>>

\* HeaderMap::contains_key
ContainsKey(map, name) == \E i \in 1..Len(map) : map[i].name = name

\* HeaderMap::append, as http::request::Builder::header calls it
HeaderAppend(map, name, value) ==
    IF ContainsKey(map, name)
    THEN [i \in 1..Len(map) |->
            IF map[i].name = name
            THEN [map[i] EXCEPT !.values = Append(@, value)]
            ELSE map[i]]
    ELSE Append(map, [name |-> name, values |-> <<value>>])

\* HeaderMap::get_all
GetAll(map, name) ==
    IF ContainsKey(map, name)
    THEN (CHOOSE e \in {map[i] : i \in 1..Len(map)} : e.name = name).values
    ELSE <<>>

RECURSIVE Iter(_)
\* HeaderMap::iter: the (name, value) pairs, entry by entry
Iter(map) ==
    IF map = <<>> THEN <<>>
    ELSE [i \in 1..Len(map[1].values) |-> <<map[1].name, map[1].values[i]>>]
            \o Iter(Tail(map))

RECURSIVE AppendAll(_, _)
\* the builder after header(key, value) for each pair of a sequence
AppendAll(map, pairs) ==
    IF pairs = <<>> THEN map
    ELSE AppendAll(HeaderAppend(map, pairs[1][1], pairs[1][2]), Tail(pairs))

\* HeaderValue::from_str: an error unless every byte is visible ASCII
HeaderValueFromStr(text) ==
    IF \A i \in 1..Len(text) : text[i] \notin ControlChars
    THEN [ok |-> TRUE, value |-> text]
    ELSE [ok |-> FALSE, value |-> <<>>]

\* ----------------------------------------------------------- the requests

\* the (name, value) pairs a caller puts in the headers of its request
HeaderPairs ==
    { <<HOST, <<"w">> >>, <<ACCEPT, <<"t">> >> }

\* sequences of at most n elements of S
SeqUpTo(S, n) == UNION {[1..k -> S] : k \in 0..n}

\* hyper::Request<B> as send_request receives it
Requests ==
    { [method |-> "GET", uri |-> u,
       headers |-> AppendAll(EmptyHeaderMap, h), body |-> <<>>] :
         u \in Uris, h \in SeqUpTo(HeaderPairs, MaxHeaders) }
        \cup { [method |-> "DELETE", uri |-> u,
                headers |-> EmptyHeaderMap, body |-> <<>>] : u \in Uris }

\* the values a caller gives get, head and post as the URI: https://h,
\* http://h:81, h, /p, the empty text, "h h", and http:// without authority
UriTexts ==
    { <<"h", "t", "t", "p", "s", ":", "/", "/", "h">>,
      <<"h", "t", "t", "p", ":", "/", "/", "h", ":", "8", "1">>,
      <<"h">>,
      <<"/", "p">>,
      <<>>,
      <<"h", " ", "h">>,
      <<"h", "t", "t", "p", ":", "/", "/">> }

\* the content types a caller gives post; the second is no header value
ContentTypes == { <<"t">>, <<"t", "LF">> }

\* the bodies a caller gives post, as bytes
Bodies == { <<>>, <<104, 105>> }

\* the calls on a Client: get(uri), head(uri), post(uri, content_type, body)
Calls ==
    [fn : {"get", "head"}, uri : UriTexts, content_type : {NoneV}, body : {<<>>}]
        \cup [fn : {"post"}, uri : UriTexts,
              content_type : {Some(t) : t \in ContentTypes}, body : Bodies]

\* Err of Request::builder: the uri is not a URI
ErrInvalidUri == [ok |-> FALSE, kind |-> "InvalidUri", from |-> "request_builder"]
\* Err of Request::builder: the content type is not a header value
ErrInvalidHeaderValue ==
    [ok |-> FALSE, kind |-> "InvalidHeaderValue", from |-> "request_builder"]

\* a bug: a value that is no URI is replaced by the default URI, "/"
GetRequestUnchecked(c) ==
    [ok |-> TRUE,
     request |-> [method |-> "GET",
                  uri |-> IF ParseUri(c.uri).ok THEN Unwrap(ParseUri(c.uri).uri)
                          ELSE [scheme |-> NoneV, authority |-> NoneV],
                  headers |-> EmptyHeaderMap, body |-> <<>>]]

\* Request::get(uri).body(Empty::<Bytes>::new())
GetRequest(c) ==
    IF ~ParseUri(c.uri).ok THEN [ok |-> FALSE, error |-> ErrInvalidUri]
    ELSE [ok |-> TRUE,
          request |-> [method |-> "GET", uri |-> Unwrap(ParseUri(c.uri).uri),
                       headers |-> EmptyHeaderMap, body |-> <<>>]]

\* Request::head(uri).body(Empty::<Bytes>::new())
HeadRequest(c) ==
    IF ~ParseUri(c.uri).ok THEN [ok |-> FALSE, error |-> ErrInvalidUri]
    ELSE [ok |-> TRUE,
          request |-> [method |-> "HEAD", uri |-> Unwrap(ParseUri(c.uri).uri),
                       headers |-> EmptyHeaderMap, body |-> <<>>]]

\* a bug: post builds its request with the empty body of get
PostRequestEmptyBody(c) ==
    IF ~ParseUri(c.uri).ok THEN [ok |-> FALSE, error |-> ErrInvalidUri]
    ELSE IF ~HeaderValueFromStr(Unwrap(c.content_type)).ok
    THEN [ok |-> FALSE, error |-> ErrInvalidHeaderValue]
    ELSE [ok |-> TRUE,
          request |-> [method |-> "POST", uri |-> Unwrap(ParseUri(c.uri).uri),
                       headers |-> HeaderAppend(EmptyHeaderMap, CONTENT_TYPE,
                           HeaderValueFromStr(Unwrap(c.content_type)).value),
                       body |-> <<>>]]

\* Request::post(uri).header(CONTENT_TYPE, content_type)
\*     .body(Full::<Bytes>::from(body)); the builder keeps its first error
PostRequest(c) ==
    IF ~ParseUri(c.uri).ok THEN [ok |-> FALSE, error |-> ErrInvalidUri]
    ELSE IF ~HeaderValueFromStr(Unwrap(c.content_type)).ok
    THEN [ok |-> FALSE, error |-> ErrInvalidHeaderValue]
    ELSE [ok |-> TRUE,
          request |-> [method |-> "POST", uri |-> Unwrap(ParseUri(c.uri).uri),
                       headers |-> HeaderAppend(EmptyHeaderMap, CONTENT_TYPE,
                           HeaderValueFromStr(Unwrap(c.content_type)).value),
                       body |-> c.body]]

\* ------------------------------------------------ create_stream, the plan

\* a bug: url.host().unwrap_or_default(), an empty host instead of the error
HostOrEmpty(url) ==
    IF IsSome(UriHost(url))
    THEN [ok |-> TRUE, host |-> Unwrap(UriHost(url))]
    ELSE [ok |-> TRUE, host |-> <<>>]

\* let host = url.host().ok_or_else(|| IoError::new(InvalidInput, "Missing host"))?
HostOf(url) ==
    IF IsSome(UriHost(url))
    THEN [ok |-> TRUE, host |-> Unwrap(UriHost(url))]
    ELSE [ok |-> FALSE, host |-> <<>>]

\* a bug: every URI that has a scheme is taken for https
IsHttpsAnyScheme(url) == IsSome(UriScheme(url))

\* let https = url.scheme() == Some(&Scheme::HTTPS)
IsHttps(url) == UriScheme(url) = Some(HTTPS)

\* a bug: with https the explicit port is ignored
PortHttpsFirst(url) ==
    IF IsHttps(url) THEN 443
    ELSE IF IsSome(UriPortU16(url)) THEN Unwrap(UriPortU16(url))
    ELSE 80

\* let port = match url.port_u16() { Some(port) => port, None if https => 443, None => 80 }
Port(url) ==
    IF IsSome(UriPortU16(url)) THEN Unwrap(UriPortU16(url))
    ELSE IF IsHttps(url) THEN 443
    ELSE 80

\* a bug: the error of connect is not propagated, the pipeline goes on
AfterConnectIgnoringError(ok, url) ==
    IF IsHttps(url) THEN "tls" ELSE "handshake"

\* tor_client.connect(..).await.map_err(..)?, then `if https`: what
\* create_stream does once connect resolved
AfterConnect(ok, url) ==
    IF ~ok THEN "return"
    ELSE IF IsHttps(url) THEN "tls"
    ELSE "handshake"

\* a bug: when the TLS connect fails the call goes on without TLS
AfterTlsFallback(ok) == "handshake"

\* cx.connect(host, stream).await.map_err(..)?: what create_stream does once
\* the TLS connect resolved
AfterTls(ok) == IF ok THEN "handshake" ELSE "return"

\* hyper::client::conn::http1::handshake(..).await?: what send_request does
\* once the handshake resolved
AfterHandshake(ok) == IF ok THEN "spawn" ELSE "return"

\* -------------------------------------------- send_request, the rebuilding

\* a bug: the headers are copied with insert, which keeps one value for a name
CopiedHeadersLastValue(req) ==
    [i \in 1..Len(req.headers) |->
        [name |-> req.headers[i].name,
         values |-> <<req.headers[i].values[Len(req.headers[i].values)]>>]]

\* Request::builder().uri(..).method(..), then header(key, value) for each
\* (key, value) of req.headers()
CopiedHeaders(req) == AppendAll(EmptyHeaderMap, Iter(req.headers))

\* a bug: the Host header is added whether or not the caller supplied one
AddsHostAlways(req) == IsSome(UriAuthority(req.uri))

\* whether the Host header is synthesized from the authority
AddsHost(req) ==
    /\ ~ContainsKey(req.headers, HOST)
    /\ IsSome(UriAuthority(req.uri))

\* HeaderValue::from_str(authority.as_str()).unwrap() panics
HostUnwrapPanics(req) ==
    /\ AddsHost(req)
    /\ ~HeaderValueFromStr(Unwrap(UriAuthority(req.uri))).ok

\* the headers of final_req
FinalHeaders(req) ==
    IF AddsHost(req)
    THEN HeaderAppend(CopiedHeaders(req), HOST,
                      HeaderValueFromStr(Unwrap(UriAuthority(req.uri))).value)
    ELSE CopiedHeaders(req)

\* final_req = final_req_builder.body(req.into_body())
FinalReq(req) ==
    [method |-> req.method, uri |-> req.uri,
     headers |-> FinalHeaders(req), body |-> req.body]

\* ------------------------------------------------------------- the results

\* Err of create_stream: IoError InvalidInput "Missing host"
ErrMissingHost == [ok |-> FALSE, kind |-> "MissingHost", from |-> "create_stream"]
\* Err of tor_client.connect, mapped to IoError Other
ErrTransport == [ok |-> FALSE, kind |-> "TransportError", from |-> "tor_client"]
\* Err of the TLS connector, mapped to IoError Other
ErrTls == [ok |-> FALSE, kind |-> "TlsError", from |-> "tls_connector"]
\* Err of hyper's handshake
ErrHandshake == [ok |-> FALSE, kind |-> "HttpError", from |-> "handshake"]
\* Err of request_sender.send_request
ErrSend == [ok |-> FALSE, kind |-> "HttpError", from |-> "request_sender"]
\* Ok(resp) of request_sender.send_request
OkResponse == [ok |-> TRUE, kind |-> "Response", from |-> "request_sender"]
\* Err(e) of connection.await, as eprintln! writes it
ErrConnection == [ok |-> FALSE, kind |-> "ConnectionDriverError", from |-> "connection"]

\* --------------------------------------------------------------- the state

VARIABLES
    builder,    \* ClientConfigBuilder { tls_config, tor_config } (Option)
    built,      \* what ClientConfigBuilder::build returned (Option)
    client,     \* Client { tor_client, config } (Option)
    ntor,       \* Tor clients TorClient::create_bootstrapped has made
    parked,     \* the call of the caller task that is not running
    ncalls,     \* calls issued on the Client so far
    call,       \* the get, head or post call of the running task (Option)
    pc,         \* where the running task is in send_request
    req,        \* the request of the present call (Option)
    io,         \* the external operations the present call invoked
    stream,     \* the stream the present call holds (Option)
    conn,       \* the connection of the present call's handshake (Option)
    result,     \* what the present call returned (Option)
    nstreams,   \* streams tor_client.connect has handed out
    conns,      \* the HTTP connections: wire, driver task, sender channel
    stderr,     \* the diagnostic output (eprintln!)
    panics      \* the tasks that panicked

vars == <<builder, built, client, ntor, parked, ncalls, call, pc, req, io,
          stream, conn, result, nstreams, conns, stderr, panics>>

\* no external operation invoked yet: the steps of the call in order, and the
\* arguments of each operation (connected: the streams connect returned)
NoIo ==
    [order |-> <<>>, connect |-> <<>>, connected |-> <<>>, upgrade |-> <<>>,
     handshake |-> <<>>, spawn |-> <<>>, send |-> <<>>]

\* send_request has returned or was dropped; its values are still in view
Ended == pc \in {"done", "abandoned"}

\* the caller task is suspended at an await of send_request
Awaiting == pc \in {"connect", "tls", "handshake", "send"}

\* a task of the caller that is not in a call
NoCall ==
    [call |-> NoneV, pc |-> "idle", req |-> NoneV, io |-> NoIo,
     stream |-> NoneV, conn |-> NoneV, result |-> NoneV]

\* the defaults ClientConfigBuilder::build constructs
DefaultConfig ==
    [tls_config |-> "default TlsConnector",
     tor_config |-> "default TorClientConfig"]

\* Client { tor_client, config } of with_config: the n-th Tor client that
\* TorClient::create_bootstrapped made, and the config it was made from
NewClient(n, config) == [tor_client |-> n, config |-> config]

\* Client::new has returned: ClientConfigBuilder::new().build() gave the
\* defaults and with_config bootstrapped the Tor client from them
Init ==
    /\ builder = NoneV
    /\ built = Some([ok |-> TRUE, config |-> DefaultConfig])
    /\ client = Some(NewClient(1, DefaultConfig))
    /\ ntor = 1
    /\ parked = NoCall
    /\ call = NoneV
    /\ ncalls = 0
    /\ pc = "idle"
    /\ req = NoneV
    /\ io = NoIo
    /\ stream = NoneV
    /\ conn = NoneV
    /\ result = NoneV
    /\ nstreams = 0
    /\ conns = <<>>
    /\ stderr = <<>>
    /\ panics = {}

\* the configs a caller sets on the builder
TlsConfigs == {"TlsConnector a", "TlsConnector b"}
TorConfigs == {"TorClientConfig a", "TorClientConfig b"}

\* Err of TorClient::create_bootstrapped
ErrBootstrap == [ok |-> FALSE, kind |-> "TransportError", from |-> "create_bootstrapped"]

\* ClientConfigBuilder::new() is the only value of the program so far
InitBuild ==
    /\ builder = Some([tls_config |-> NoneV, tor_config |-> NoneV])
    /\ built = NoneV
    /\ client = NoneV
    /\ ntor = 0
    /\ parked = NoCall
    /\ call = NoneV
    /\ ncalls = 0
    /\ pc = "idle"
    /\ req = NoneV
    /\ io = NoIo
    /\ stream = NoneV
    /\ conn = NoneV
    /\ result = NoneV
    /\ nstreams = 0
    /\ conns = <<>>
    /\ stderr = <<>>
    /\ panics = {}

\* ClientConfigBuilder::new()
NewBuilder ==
    /\ panics = {}
    /\ builder = NoneV
    /\ builder' = Some([tls_config |-> NoneV, tor_config |-> NoneV])
    /\ UNCHANGED <<built, client, ntor, parked, ncalls, call, pc, req, io, stream,
                   conn, result, nstreams, conns, stderr, panics>>

\* ClientConfigBuilder::tls_config
TlsConfig(v) ==
    /\ IsSome(builder)
    /\ builder' = Some([Unwrap(builder) EXCEPT !.tls_config = Some(v)])
    /\ UNCHANGED <<built, client, ntor, parked, ncalls, call, pc, req, io, stream,
                   conn, result, nstreams, conns, stderr, panics>>

\* ClientConfigBuilder::tor_config
TorConfig(v) ==
    /\ IsSome(builder)
    /\ builder' = Some([Unwrap(builder) EXCEPT !.tor_config = Some(v)])
    /\ UNCHANGED <<built, client, ntor, parked, ncalls, call, pc, req, io, stream,
                   conn, result, nstreams, conns, stderr, panics>>

\* whether build panics: the default of the first unset field whose
\* construction failed is taken with expect(..)
BuildPanics(b, tls_ok, tor_ok) ==
    \/ ~IsSome(b.tls_config) /\ ~tls_ok
    \/ ~IsSome(b.tor_config) /\ ~tor_ok

\* the ClientConfig of build: self.tls_config.unwrap_or_else(default),
\* self.tor_config.unwrap_or_else(default)
BuiltConfig(b) ==
    [tls_config |-> IF IsSome(b.tls_config) THEN Unwrap(b.tls_config)
                    ELSE DefaultConfig.tls_config,
     tor_config |-> IF IsSome(b.tor_config) THEN Unwrap(b.tor_config)
                    ELSE DefaultConfig.tor_config]

\* ClientConfigBuilder::build(self); tls_ok and tor_ok are the outcomes of
\* TlsConnector::builder().build() and of TorClientConfig::builder()..build()
Build(tls_ok, tor_ok) ==
    /\ IsSome(builder)
    /\ builder' = NoneV
    /\ IF BuildPanics(Unwrap(builder), tls_ok, tor_ok)
       THEN /\ panics' = panics \cup {"caller"}
            /\ built' = NoneV
       ELSE /\ built' = Some([ok |-> TRUE, config |-> BuiltConfig(Unwrap(builder))])
            /\ UNCHANGED panics
    /\ UNCHANGED <<client, ntor, parked, ncalls, call, pc, req, io, stream,
                   conn, result, nstreams, conns, stderr>>

\* Client::with_config(config): create_tor_client(&config).await?, then
\* Ok(Client { tor_client, config })
WithConfig(ok) ==
    /\ panics = {}
    /\ IsSome(built)
    /\ client = NoneV
    /\ result = NoneV
    /\ IF ok
       THEN /\ client' = Some(NewClient(ntor + 1, Unwrap(built).config))
            /\ ntor' = ntor + 1
            /\ UNCHANGED result
       ELSE /\ result' = Some(ErrBootstrap)
            /\ UNCHANGED <<client, ntor>>
    /\ UNCHANGED <<builder, built, parked, ncalls, call, pc, req, io, stream,
                   conn, nstreams, conns, stderr, panics>>

\* the call returns r to its caller
Return(r) ==
    /\ result' = Some(r)
    /\ pc' = "done"

\* create_stream returns st, and
\* hyper::client::conn::http1::handshake(TokioIo::new(stream)) is awaited
StartHandshake(log, st) ==
    /\ io' = [log EXCEPT !.order = @ \o <<"stream", "handshake">>,
                         !.handshake = Append(@, st)]
    /\ stream' = Some(st)
    /\ pc' = "handshake"

\* a bug: the connection is kept, but no task is spawned to await it
NewConnUndriven(st) ==
    [stream |-> st.id, driver |-> "none", wire |-> "open",
     sent |-> 0, pending |-> FALSE, answered |-> FALSE, reply |-> NoneV]

\* a connection fresh from the handshake, its driver task running
NewConn(st) ==
    [stream |-> st.id, driver |-> "running", wire |-> "open",
     sent |-> 0, pending |-> FALSE, answered |-> FALSE, reply |-> NoneV]

\* a bug: connect hands out the stream of the call before (keep-alive)
PooledStream(n) == [id |-> IF n = 0 THEN 1 ELSE n, layer |-> "tor"]

\* the stream tor_client.connect returns: one that no call had before
FreshStream(n) == [id |-> n + 1, layer |-> "tor"]

\* a bug: the connection is dropped, no task drives it
SpawnNothing(cs, st) == cs

\* tokio::spawn(async move { .. connection.await .. })
Spawn(cs, st) == Append(cs, NewConn(st))

\* a bug: the error of the connection is dropped (let _ = connection.await)
ReportNothing(out, id) == out

\* eprintln!("Error: {e:?}")
Report(out, id) == Append(out, [conn |-> id, error |-> ErrConnection])

\* ------------------------------------------------------- the caller's task

\* send_request is entered with r; create_stream runs up to
\* tor_client.connect((host, port)).await
SendRequest(r) ==
    /\ pc = "idle"
    /\ ncalls < MaxCalls
    /\ ncalls' = ncalls + 1
    /\ req' = Some(r)
    /\ stream' = NoneV
    /\ conn' = NoneV
    /\ IF ~HostOf(r.uri).ok
       THEN /\ io' = NoIo
            /\ Return(ErrMissingHost)
       ELSE /\ io' = [NoIo EXCEPT
                        !.order = <<"host", "connect">>,
                        !.connect = <<[host |-> HostOf(r.uri).host,
                                       port |-> Port(r.uri)]>>]
            /\ result' = NoneV
            /\ pc' = "connect"
    /\ UNCHANGED <<builder, built, ntor, parked, client, nstreams, conns, stderr, panics>>

\* send_request is called with a request of the caller's own making
CallSendRequest(r) ==
    /\ SendRequest(r)
    /\ call' = NoneV

\* a bug: a failed connect is tried once more
ConnectedWithRetry(ok) ==
    /\ pc = "connect"
    /\ ~ok
    /\ Len(io.connect) < 2
    /\ io' = [io EXCEPT !.order = @ \o <<"connect_failed", "connect">>,
                        !.connect = Append(@, @[1])]
    /\ UNCHANGED <<builder, built, ntor, parked, client, call, ncalls, pc, req, stream, conn, result,
                   nstreams, conns, stderr, panics>>

\* tor_client.connect resolved; with https the TLS connect is awaited next,
\* otherwise create_stream returns the stream and the handshake is awaited
Connected(ok) ==
    /\ pc = "connect"
    /\ LET url == Unwrap(req).uri
           raw == FreshStream(nstreams)
           log == [io EXCEPT
                     !.order = Append(@, IF ok THEN "connected" ELSE "connect_failed"),
                     !.connected = IF ok THEN Append(@, raw) ELSE @]
           step == AfterConnect(ok, url)
       IN  /\ nstreams' = IF ok THEN nstreams + 1 ELSE nstreams
           /\ CASE step = "return" ->
                     /\ io' = log
                     /\ Return(ErrTransport)
                     /\ UNCHANGED stream
                [] step = "tls" ->
                     /\ io' = [log EXCEPT
                                 !.order = Append(@, "tls"),
                                 !.upgrade = Append(@,
                                     [stream |-> raw,
                                      server_name |-> HostOf(url).host])]
                     /\ stream' = Some(raw)
                     /\ pc' = "tls"
                     /\ UNCHANGED result
                [] step = "handshake" ->
                     /\ StartHandshake(log, raw)
                     /\ UNCHANGED result
    /\ UNCHANGED <<builder, built, ntor, parked, client, call, ncalls, req, conn, conns, stderr, panics>>

\* the TLS connect resolved; create_stream returns the wrapped stream
TlsConnected(ok) ==
    /\ pc = "tls"
    /\ LET log == [io EXCEPT
                     !.order = Append(@, IF ok THEN "tls_ok" ELSE "tls_failed")]
           step == AfterTls(ok)
       IN  CASE step = "return" ->
                  /\ io' = log
                  /\ Return(ErrTls)
                  /\ stream' = NoneV
             [] step = "handshake" ->
                  /\ StartHandshake(log, [id |-> Unwrap(stream).id, layer |-> "tls"])
                  /\ UNCHANGED result
    /\ UNCHANGED <<builder, built, ntor, parked, client, call, ncalls, req, conn, nstreams, conns, stderr, panics>>

\* a bug: the request is submitted before the task that drives the
\* connection is spawned
HandshakenSendFirst(ok) ==
    /\ pc = "handshake"
    /\ ok
    /\ conns' = Append(conns, [NewConn(Unwrap(stream)) EXCEPT !.pending = TRUE])
    /\ conn' = Some(Len(conns) + 1)
    /\ io' = [io EXCEPT
                !.order = @ \o <<"handshake_ok", "send", "spawn">>,
                !.spawn = Append(@, Len(conns) + 1),
                !.send = Append(@, [conn |-> Len(conns) + 1,
                                    request |-> FinalReq(Unwrap(req))])]
    /\ stream' = NoneV
    /\ pc' = "send"
    /\ UNCHANGED <<builder, built, ntor, parked, client, call, ncalls, req, result, nstreams, stderr, panics>>

\* hyper's handshake resolved; tokio::spawn of the task that awaits the
\* connection
Handshaken(ok) ==
    /\ pc = "handshake"
    /\ LET log == [io EXCEPT
                     !.order = Append(@, IF ok THEN "handshake_ok"
                                               ELSE "handshake_failed")]
           step == AfterHandshake(ok)
           id == Len(conns) + 1
       IN  CASE step = "return" ->
                  /\ io' = log
                  /\ Return(ErrHandshake)
                  /\ UNCHANGED <<conn, conns>>
             [] step = "spawn" ->
                  /\ conns' = Spawn(conns, Unwrap(stream))
                  /\ conn' = Some(id)
                  /\ io' = [log EXCEPT !.order = Append(@, "spawn"),
                                       !.spawn = Append(@, id)]
                  /\ pc' = "spawned"
                  /\ UNCHANGED result
    /\ stream' = NoneV
    /\ UNCHANGED <<builder, built, ntor, parked, client, call, ncalls, req, nstreams, stderr, panics>>

\* the request is rebuilt and request_sender.send_request(final_req) is
\* awaited; a connection whose driver has ended answers with an error
Send ==
    /\ pc = "spawned"
    /\ LET r == Unwrap(req)
           id == Unwrap(conn)
       IN  IF HostUnwrapPanics(r)
           THEN /\ panics' = panics \cup {"caller"}
                /\ pc' = "panicked"
                /\ UNCHANGED <<io, conns>>
           ELSE /\ io' = [io EXCEPT
                            !.order = Append(@, "send"),
                            !.send = Append(@, [conn |-> id, request |-> FinalReq(r)])]
                /\ conns' = [conns EXCEPT ![id] =
                                IF @.driver \in {"finished", "failed"}
                                THEN [@ EXCEPT !.sent = @ + 1,
                                               !.reply = Some(ErrSend)]
                                ELSE [@ EXCEPT !.sent = @ + 1, !.pending = TRUE]]
                /\ pc' = "send"
                /\ UNCHANGED panics
    /\ UNCHANGED <<builder, built, ntor, parked, client, call, ncalls, req, stream, conn, result, nstreams, stderr>>

\* request_sender.send_request resolved with what its channel holds
Received ==
    /\ pc = "send"
    /\ IsSome(conns[Unwrap(conn)].reply)
    /\ io' = [io EXCEPT !.order =
                Append(@, IF Unwrap(conns[Unwrap(conn)].reply).ok
                          THEN "response" ELSE "send_failed")]
    /\ Return(Unwrap(conns[Unwrap(conn)].reply))
    /\ conns' = [conns EXCEPT ![Unwrap(conn)].reply = NoneV]
    /\ UNCHANGED <<builder, built, ntor, parked, client, call, ncalls, req, stream, conn, nstreams, stderr, panics>>

\* a bug: the caller holds the JoinHandle and aborts the task when the
\* future of the call is dropped
AbandonCancelling ==
    /\ Awaiting
    /\ pc' = "abandoned"
    /\ stream' = NoneV
    /\ conns' = IF pc = "send"
                THEN [conns EXCEPT ![Unwrap(conn)] =
                        [@ EXCEPT !.pending = FALSE, !.reply = NoneV,
                                  !.driver = "cancelled"]]
                ELSE conns
    /\ UNCHANGED <<builder, built, ntor, parked, client, call, ncalls, req, io, conn,
                   result, nstreams, stderr, panics>>

\* the caller drops the future of the call at one of its awaits, and with it
\* the stream or the sender's channel the future holds
Abandon ==
    /\ Awaiting
    /\ pc' = "abandoned"
    /\ stream' = NoneV
    /\ conns' = IF pc = "send"
                THEN [conns EXCEPT ![Unwrap(conn)] =
                        [@ EXCEPT !.pending = FALSE, !.reply = NoneV]]
                ELSE conns
    /\ UNCHANGED <<builder, built, ntor, parked, client, call, ncalls, req, io, conn, result, nstreams,
                   stderr, panics>>

\* a bug: after a call that failed, the Tor client is bootstrapped anew
LeaveRebootstrapping ==
    /\ Ended
    /\ pc' = "idle"
    /\ req' = NoneV
    /\ io' = NoIo
    /\ stream' = NoneV
    /\ conn' = NoneV
    /\ result' = NoneV
    /\ call' = NoneV
    /\ IF IsSome(result) /\ ~Unwrap(result).ok
       THEN /\ client' = Some(NewClient(ntor + 1, Unwrap(client).config))
            /\ ntor' = ntor + 1
       ELSE UNCHANGED <<client, ntor>>
    /\ UNCHANGED <<builder, built, parked, ncalls, nstreams, conns, stderr, panics>>

\* the caller task is done with the call that ended and may issue the next
Leave ==
    /\ Ended
    /\ pc' = "idle"
    /\ req' = NoneV
    /\ io' = NoIo
    /\ stream' = NoneV
    /\ conn' = NoneV
    /\ result' = NoneV
    /\ call' = NoneV
    /\ UNCHANGED <<builder, built, ntor, parked, client, ncalls, nstreams, conns, stderr, panics>>

\* a bug: a call needs the Client for itself (&mut self)
CallableExclusive ==
    /\ pc = "idle"
    /\ parked.pc = "idle"
    /\ ncalls < MaxCalls

\* a call may start whatever other calls are under way (&self)
Callable ==
    /\ pc = "idle"
    /\ ncalls < MaxCalls

\* the call c starts with the request its builder gave: an error of the
\* builder is returned by `?`, otherwise send_request is entered
Start(c, built_req) ==
    /\ Callable
    /\ call' = Some(c)
    /\ IF built_req.ok
       THEN SendRequest(built_req.request)
       ELSE /\ ncalls' = ncalls + 1
            /\ req' = NoneV
            /\ io' = NoIo
            /\ stream' = NoneV
            /\ conn' = NoneV
            /\ Return(built_req.error)
            /\ UNCHANGED <<builder, built, ntor, parked, client,
                           nstreams, conns, stderr, panics>>

\* Client::get
ClientGet(c) == c.fn = "get" /\ Start(c, GetRequest(c))

\* Client::head
ClientHead(c) == c.fn = "head" /\ Start(c, HeadRequest(c))

\* Client::post
ClientPost(c) == c.fn = "post" /\ Start(c, PostRequest(c))

\* the runtime runs the other caller task: the call of the running task is
\* set aside as it stands, the call of the other task is taken up
Switch ==
    /\ parked' = [call |-> call, pc |-> pc, req |-> req, io |-> io,
                  stream |-> stream, conn |-> conn, result |-> result]
    /\ call' = parked.call
    /\ pc' = parked.pc
    /\ req' = parked.req
    /\ io' = parked.io
    /\ stream' = parked.stream
    /\ conn' = parked.conn
    /\ result' = parked.result
    /\ UNCHANGED <<builder, built, ntor, client, ncalls, nstreams, conns,
                   stderr, panics>>

\* ------------------------------------------------ the spawned driver tasks

\* the task spawned for connection id is polled: connection.await hands a
\* response to the sender, or resolves (Ok when the connection closed, Err
\* when it broke; the error is written by eprintln!) and the task ends; a
\* request still pending then fails at the sender
DriverPoll(id) ==
    /\ conns[id].driver = "running"
    /\ LET c == conns[id]
           cancel == IF c.pending THEN Some(ErrSend) ELSE c.reply
       IN  \/ /\ c.pending /\ c.answered
              /\ conns' = [conns EXCEPT ![id] =
                              [c EXCEPT !.pending = FALSE, !.answered = FALSE,
                                        !.reply = Some(OkResponse)]]
              /\ UNCHANGED stderr
           \/ /\ ~(c.pending /\ c.answered)
              /\ c.wire = "closed"
              /\ conns' = [conns EXCEPT ![id] =
                              [c EXCEPT !.driver = "finished",
                                        !.pending = FALSE, !.reply = cancel]]
              /\ UNCHANGED stderr
           \/ /\ ~(c.pending /\ c.answered)
              /\ c.wire = "error"
              /\ conns' = [conns EXCEPT ![id] =
                              [c EXCEPT !.driver = "failed",
                                        !.pending = FALSE, !.reply = cancel]]
              /\ stderr' = Report(stderr, id)
    /\ UNCHANGED <<builder, built, ntor, parked, client, call, ncalls, pc, req, io, stream, conn, result,
                   nstreams, panics>>

\* ---------------------------------------------------------------- the peer

\* the peer's response to the pending request arrives
PeerAnswers(id) ==
    /\ conns[id].wire = "open"
    /\ conns[id].pending
    /\ ~conns[id].answered
    /\ conns' = [conns EXCEPT ![id].answered = TRUE]
    /\ UNCHANGED <<builder, built, ntor, parked, client, call, ncalls, pc, req, io, stream, conn, result,
                   nstreams, stderr, panics>>

\* the connection ends: closed in order, or broken
WireEnds(id, how) ==
    /\ conns[id].wire = "open"
    /\ conns' = [conns EXCEPT ![id].wire = how]
    /\ UNCHANGED <<builder, built, ntor, parked, client, call, ncalls, pc, req, io, stream, conn, result,
                   nstreams, stderr, panics>>

\* ------------------------------------------------------- the specification

Next ==
    \/ \E r \in Requests : CallSendRequest(r)
    \/ \E ok \in BOOLEAN : Connected(ok)
    \/ \E ok \in BOOLEAN : TlsConnected(ok)
    \/ \E ok \in BOOLEAN : Handshaken(ok)
    \/ Send
    \/ Received
    \/ Abandon
    \/ Leave
    \/ \E id \in 1..Len(conns) : DriverPoll(id)
    \/ \E id \in 1..Len(conns) : PeerAnswers(id)
    \/ \E id \in 1..Len(conns), how \in {"closed", "error"} : WireEnds(id, how)

Spec == Init /\ [][Next]_vars

\* the construction of a ClientConfig and of a Client from it
NextBuild ==
    \/ NewBuilder
    \/ \E v \in TlsConfigs : TlsConfig(v)
    \/ \E v \in TorConfigs : TorConfig(v)
    \/ \E tls_ok, tor_ok \in BOOLEAN : Build(tls_ok, tor_ok)
    \/ \E ok \in BOOLEAN : WithConfig(ok)

SpecBuild == InitBuild /\ [][NextBuild]_vars

\* one caller task that calls get, head and post
NextApi ==
    \/ \E c \in Calls : ClientGet(c)
    \/ \E c \in Calls : ClientHead(c)
    \/ \E c \in Calls : ClientPost(c)
    \/ \E ok \in BOOLEAN : Connected(ok)
    \/ \E ok \in BOOLEAN : TlsConnected(ok)
    \/ \E ok \in BOOLEAN : Handshaken(ok)
    \/ Send
    \/ Received
    \/ Abandon
    \/ Leave
    \/ \E id \in 1..Len(conns) : DriverPoll(id)
    \/ \E id \in 1..Len(conns) : PeerAnswers(id)
    \/ \E id \in 1..Len(conns), how \in {"closed", "error"} : WireEnds(id, how)

SpecApi == Init /\ [][NextApi]_vars

\* the step of the task spawned for the id-th connection, if there is one
DriverTask(id) == id \in 1..Len(conns) /\ DriverPoll(id)

\* the runtime polls every task that can make a step: the spawned tasks,
\* and the caller's task when its sender has its reply
Fairness ==
    /\ \A id \in 1..MaxCalls : WF_vars(DriverTask(id))
    /\ WF_vars(Received)

SpecFair == SpecApi /\ Fairness

\* the calls of the two caller tasks that share the Client: get of the
\* empty text, head of h, post to https://h
ConcurrentCalls ==
    {c \in Calls :
        \/ /\ c.fn = "get"
           /\ c.uri = <<>>
        \/ /\ c.fn = "head"
           /\ c.uri = <<"h">>
        \/ /\ c.fn = "post"
           /\ c.uri = <<"h", "t", "t", "p", "s", ":", "/", "/", "h">>
           /\ c.content_type = Some(<<"t">>)
           /\ c.body = <<104, 105>>}

\* two caller tasks that call get, head and post on the same Client
NextConcurrent ==
    \/ \E c \in ConcurrentCalls : ClientGet(c)
    \/ \E c \in ConcurrentCalls : ClientHead(c)
    \/ \E c \in ConcurrentCalls : ClientPost(c)
    \/ \E ok \in BOOLEAN : Connected(ok)
    \/ \E ok \in BOOLEAN : TlsConnected(ok)
    \/ \E ok \in BOOLEAN : Handshaken(ok)
    \/ Send
    \/ Received
    \/ Abandon
    \/ Leave
    \/ Switch
    \/ \E id \in 1..Len(conns) : DriverPoll(id)
    \/ \E id \in 1..Len(conns) : PeerAnswers(id)
    \/ \E id \in 1..Len(conns), how \in {"closed", "error"} : WireEnds(id, how)

SpecConcurrent == Init /\ [][NextConcurrent]_vars

\* ------------------------------------------------------------ the claims

\* the present call went through step e
Did(e) == \E i \in 1..Len(io.order) : io.order[i] = e

\* the URI of the present call has the https scheme
Secure == Unwrap(req).uri.scheme = Some(HTTPS)

\* streams create_stream returned to the present call
StreamsCreated == Cardinality({i \in 1..Len(io.order) : io.order[i] = "stream"})

\* C1: for a URI with a host, the port given to the transport's connect is
\* the explicit port of the URI if it has one, whatever the scheme; otherwise
\* 443 for https; otherwise 80 (http, any other scheme, no scheme).
C1_ConnectPort ==
    IsSome(req) /\ IsSome(UriHost(Unwrap(req).uri)) =>
        LET url == Unwrap(req).uri
            explicit == UriPortU16(url)
        IN  /\ Len(io.connect) = 1
            /\ io.connect[1].port =
                 IF IsSome(explicit) THEN Unwrap(explicit)
                 ELSE IF url.scheme = Some(HTTPS) THEN 443
                 ELSE 80

\* an https URI with the explicit port 81 was connected to port 81
C1_Witness ==
    /\ IsSome(req)
    /\ Unwrap(req).uri = [scheme |-> Some(HTTPS),
                          authority |-> Some(<<"h", ":", "8", "1">>)]
    /\ Len(io.connect) = 1
    /\ io.connect[1].port = 81

\* C2: in every request submitted to the request-sender: without a Host
\* header in the caller's request there is exactly one Host header, the
\* URI's authority; with one, the Host values are the caller's, none added;
\* and dispatching the submitted request again leaves its Host header as is.
C2_HostHeader ==
    \A i \in 1..Len(io.send) :
        LET caller == Unwrap(req)
            sent == io.send[i].request
        IN  /\ ~ContainsKey(caller.headers, HOST) =>
                  GetAll(sent.headers, HOST) = <<Unwrap(caller.uri.authority)>>
            /\ ContainsKey(caller.headers, HOST) =>
                  GetAll(sent.headers, HOST) = GetAll(caller.headers, HOST)
            /\ GetAll(FinalReq(sent).headers, HOST) = GetAll(sent.headers, HOST)

\* a request without Host header to host h, port 81, was submitted with the
\* Host header h:81
C2_Witness ==
    /\ Len(io.send) = 1
    /\ ~ContainsKey(Unwrap(req).headers, HOST)
    /\ GetAll(io.send[1].request.headers, HOST) = << <<"h", ":", "8", "1">> >>

\* C3: with a URI that has no host, send_request fails with the missing-host
\* error and connect, TLS upgrade, handshake, spawn and send are not invoked.
C3_MissingHost ==
    IsSome(req) /\ ~IsSome(UriHost(Unwrap(req).uri)) =>
        /\ pc = "done"
        /\ result = Some(ErrMissingHost)
        /\ io = NoIo
        /\ conn = NoneV

\* a call with a URI without host has returned
C3_Witness ==
    /\ IsSome(req)
    /\ ~IsSome(Unwrap(req).uri.authority)
    /\ pc = "done"
    /\ ncalls = 1
    /\ nstreams = 0

\* C4: when the transport's connect fails, send_request returns the
\* transport error, and TLS upgrade, handshake, spawn and send are not
\* attempted, with https and without.
C4_ConnectFails ==
    Did("connect_failed") =>
        /\ pc = "done"
        /\ result = Some(ErrTransport)
        /\ io.upgrade = <<>>
        /\ io.handshake = <<>>
        /\ io.spawn = <<>>
        /\ io.send = <<>>
        /\ conn = NoneV

\* the connect of a call to an https URI failed
C4_Witness ==
    /\ Did("connect_failed")
    /\ Secure
    /\ result = Some(ErrTransport)

\* C5: when connect succeeds and the TLS upgrade fails (https only),
\* send_request returns the TLS error; no handshake, no spawn, no send.
C5_TlsFails ==
    Did("tls_failed") =>
        /\ Secure
        /\ Did("connected")
        /\ pc = "done"
        /\ result = Some(ErrTls)
        /\ io.handshake = <<>>
        /\ io.spawn = <<>>
        /\ io.send = <<>>
        /\ conn = NoneV

\* the TLS upgrade of a call failed after its connect succeeded
C5_Witness ==
    /\ Did("tls_failed")
    /\ Len(io.connected) = 1
    /\ result = Some(ErrTls)

\* C6: the TLS upgrade is invoked iff the scheme is https and connect
\* succeeded; it is given the stream connect returned and the URI's host as
\* server name; without https the handshake gets the raw transport stream.
C6_TlsIffHttps ==
    IsSome(req) =>
        /\ Len(io.upgrade) <= 1
        /\ (io.upgrade # <<>>) <=> (Secure /\ Did("connected"))
        /\ \A i \in 1..Len(io.upgrade) :
              /\ io.upgrade[i].stream = io.connected[1]
              /\ io.upgrade[i].server_name = Unwrap(UriHost(Unwrap(req).uri))
        /\ ~Secure =>
              /\ \A i \in 1..Len(io.handshake) :
                    /\ io.handshake[i] = io.connected[1]
                    /\ io.handshake[i].layer = "tor"

\* the TLS upgrade of a call to https://h:81 got the connected stream and
\* the server name h
C6_Witness ==
    /\ IsSome(req)
    /\ Unwrap(req).uri.authority = Some(<<"h", ":", "8", "1">>)
    /\ Len(io.upgrade) = 1
    /\ io.upgrade[1].server_name = <<"h">>
    /\ io.upgrade[1].stream = [id |-> nstreams, layer |-> "tor"]

\* C7, as claimed: every call that returned created exactly one stream and
\* spawned exactly one driver task, whatever its outcome.
C7_Original ==
    pc = "done" => StreamsCreated = 1 /\ Len(io.spawn) = 1

\* C7, amended: a call creates at most one stream, and exactly one once its
\* connect and, with https, its TLS upgrade succeeded; at most one driver
\* task is spawned per stream, and exactly one once the handshake on the
\* stream succeeded; that task drives the connection of this stream, and no
\* two tasks drive the same stream.
C7_StreamAndDriver ==
    IsSome(req) =>
        /\ StreamsCreated =
             IF Did("connected") /\ (Secure => Did("tls_ok")) THEN 1 ELSE 0
        /\ Len(io.spawn) = IF Did("handshake_ok") THEN 1 ELSE 0
        /\ Len(io.spawn) <= StreamsCreated
        /\ \A i \in 1..Len(io.spawn) :
              /\ io.spawn[i] \in 1..Len(conns)
              /\ conns[io.spawn[i]].stream = io.handshake[1].id
        /\ \A a, b \in 1..Len(conns) :
              a # b => conns[a].stream # conns[b].stream

\* the second call spawned its driver task beside the first call's
C7_Witness ==
    /\ Len(conns) = 2
    /\ Len(io.spawn) = 1
    /\ StreamsCreated = 1

\* the error send_request returns when a step failed
ErrorOf(e) ==
    CASE e = "connect_failed" -> ErrTransport
      [] e = "tls_failed" -> ErrTls
      [] e = "handshake_failed" -> ErrHandshake
      [] e = "send_failed" -> ErrSend

Failures == {"connect_failed", "tls_failed", "handshake_failed", "send_failed"}

\* C8: no retry, reconnection or fallback within a call: connect, TLS
\* upgrade, handshake and send are invoked at most once each; the first
\* failure is the last step of the call and is what the call returns; no
\* driver is spawned after a failed handshake.
C8_NoRetry ==
    /\ Len(io.connect) <= 1
    /\ Len(io.upgrade) <= 1
    /\ Len(io.handshake) <= 1
    /\ Len(io.send) <= 1
    /\ \A i \in 1..Len(io.order) :
          io.order[i] \in Failures =>
              /\ i = Len(io.order)
              /\ pc = "done"
              /\ result = Some(ErrorOf(io.order[i]))
    /\ Did("handshake_failed") => io.spawn = <<>> /\ io.send = <<>>

\* a call ended with the error of its failed handshake
C8_Witness ==
    /\ Did("handshake_failed")
    /\ pc = "done"
    /\ result = Some(ErrHandshake)

\* the steps of a call that meets no failure
StepsInOrder(secure) ==
    <<"host", "connect", "connected">>
        \o (IF secure THEN <<"tls", "tls_ok">> ELSE <<>>)
        \o <<"stream", "handshake", "handshake_ok", "spawn", "send", "response">>

\* the failure of a step that may fail
FailureOf(e) ==
    CASE e = "connected" -> "connect_failed"
      [] e = "tls_ok" -> "tls_failed"
      [] e = "handshake_ok" -> "handshake_failed"
      [] e = "response" -> "send_failed"
      [] OTHER -> "none"

IsPrefix(a, b) == Len(a) <= Len(b) /\ SubSeq(b, 1, Len(a)) = a

\* C9: the steps of a call happen in the order host validated, connect, TLS
\* upgrade (https only), handshake, spawn, send, response or failure, each
\* after the one before succeeded; the request is sent only on a connection
\* whose handshake completed and whose driver was spawned.
C9_StepOrder ==
    IsSome(req) =>
        LET steps == StepsInOrder(Secure)
            n == Len(io.order)
        IN  /\ \/ IsPrefix(io.order, steps)
               \/ /\ n \in 1..Len(steps)
                  /\ IsPrefix(SubSeq(io.order, 1, n - 1), steps)
                  /\ io.order[n] = FailureOf(steps[n])
            /\ \A i \in 1..Len(io.send) :
                  /\ io.spawn = <<io.send[i].conn>>
                  /\ Did("handshake_ok")

\* a call to an https URI went through every step and got its response
C9_Witness ==
    /\ IsSome(req)
    /\ Secure
    /\ io.order = StepsInOrder(TRUE)
    /\ result = Some(OkResponse)

\* entries of the diagnostic output about connection id
Reports(id) == {k \in 1..Len(stderr) : stderr[k].conn = id}

\* C10: the failure of a driver task is written to the diagnostic output,
\* once; it is not what send_request returns, which comes from the
\* request-sender alone; and the step in which the task fails makes no task
\* panic and changes nothing of the call (no reconnect, no resend).
C10_DriverFailure ==
    /\ [](/\ \A id \in 1..Len(conns) :
               /\ conns[id].driver = "failed" <=> Cardinality(Reports(id)) = 1
               /\ Cardinality(Reports(id)) <= 1
          /\ IsSome(result) =>
               /\ Unwrap(result) # ErrConnection
               /\ Did("send") => Unwrap(result).from = "request_sender")
    /\ [][(\E id \in 1..Len(conns) :
               conns[id].driver = "running" /\ conns'[id].driver = "failed")
            => UNCHANGED <<builder, built, ntor, parked, client, call, ncalls, pc, req, io, stream, conn, result,
                           nstreams, panics>>]_vars

\* the driver task of the present call failed and the call returned the
\* request-sender's error
C10_Witness ==
    /\ IsSome(conn)
    /\ conns[Unwrap(conn)].driver = "failed"
    /\ Cardinality(Reports(Unwrap(conn))) = 1
    /\ result = Some(ErrSend)

\* the streams a call with the log l was given by connect or handed to the
\* handshake
StreamIdsOf(l) ==
    {l.connected[i].id : i \in 1..Len(l.connected)}
        \cup {l.handshake[i].id : i \in 1..Len(l.handshake)}

\* the connections whose driver a call with the log l spawned, or on which
\* it submitted its request
DriversOf(l) ==
    {l.spawn[i] : i \in 1..Len(l.spawn)} \cup {l.send[i].conn : i \in 1..Len(l.send)}

\* the call of the running task
Running ==
    [call |-> call, pc |-> pc, req |-> req, io |-> io,
     stream |-> stream, conn |-> conn, result |-> result]

\* the two calls under way have no stream and no driver in common
NoSharing ==
    /\ StreamIdsOf(io) \cap StreamIdsOf(parked.io) = {}
    /\ DriversOf(io) \cap DriversOf(parked.io) = {}
    /\ \A a \in DriversOf(io), b \in DriversOf(parked.io) :
          conns[a].stream # conns[b].stream

\* the next step of the running task can be taken, wherever the call of
\* the other task stands
NoWaiting ==
    /\ pc = "idle" /\ ncalls < MaxCalls =>
          \A c \in ConcurrentCalls :
              ENABLED (ClientGet(c) \/ ClientHead(c) \/ ClientPost(c))
    /\ pc = "connect" => ENABLED Connected(TRUE) /\ ENABLED Connected(FALSE)
    /\ pc = "tls" => ENABLED TlsConnected(TRUE) /\ ENABLED TlsConnected(FALSE)
    /\ pc = "handshake" => ENABLED Handshaken(TRUE) /\ ENABLED Handshaken(FALSE)
    /\ pc = "spawned" => ENABLED Send
    /\ pc = "send" /\ IsSome(conns[Unwrap(conn)].reply) => ENABLED Received

\* C11: for any interleaving of two caller tasks that call get, head and
\* post on the same Client, the two calls share no stream and no driver,
\* the running task's next step is enabled wherever the other call stands,
\* and no step of one call, failed or not, changes the other call (its
\* position, log and result) or the connection the other call drives.
C11_IndependentCalls ==
    /\ [](NoSharing /\ NoWaiting)
    /\ [][\/ /\ parked' = parked
              /\ pc' # pc => \A id \in DriversOf(parked.io) : conns'[id] = conns[id]
           \/ /\ parked' = Running
              /\ Running' = parked
              /\ conns' = conns]_vars

\* the call of the other task is suspended in its TLS connect, on the first
\* stream, while the running task's call, begun later, has its response
C11_Witness ==
    /\ parked.pc = "tls"
    /\ StreamIdsOf(parked.io) = {1}
    /\ pc = "done"
    /\ result = Some(OkResponse)
    /\ StreamIdsOf(io) = {2}

\* C12: on any stream at most one HTTP handshake is performed and at most
\* one request is submitted (no two connections are on the same stream, a
\* call hands one stream at most to the handshake, a connection takes one
\* request at most), and the stream connect gives a call is one that no
\* call had before: a stream of an earlier call is never used again.
C12_OneRequestPerStream ==
    /\ [](/\ Len(io.handshake) <= 1
          /\ Len(io.send) <= 1
          /\ StreamIdsOf(io) \subseteq 1..nstreams
          /\ \A a \in 1..Len(conns) :
                /\ conns[a].sent <= 1
                /\ conns[a].stream \in 1..nstreams
                /\ conns[a].stream \in StreamIdsOf(io) => a \in DriversOf(io)
                /\ \A b \in 1..Len(conns) :
                      conns[a].stream = conns[b].stream => a = b)
    /\ [][Len(io'.connected) > Len(io.connected) =>
            io'.connected[Len(io'.connected)].id \notin 1..nstreams]_vars

\* the second call has submitted its request on its own stream, after the
\* first call submitted one on another
C12_Witness ==
    /\ ncalls = 2
    /\ Len(conns) = 2
    /\ conns[1].sent = 1
    /\ conns[2].sent = 1
    /\ conns[1].stream # conns[2].stream
    /\ pc = "send"

\* C13: the request a post(uri, content_type, body) call submits to the
\* request sender has the method POST, one Content-Type header whose value
\* is the content_type given, and the body given, byte for byte; get and
\* head submit the methods GET and HEAD with an empty body.
C13_PostCarriesTypeAndBody ==
    IsSome(call) =>
        \A i \in 1..Len(io.send) :
            LET c == Unwrap(call)
                sent == io.send[i].request
            IN  /\ c.fn = "post" =>
                      /\ sent.method = "POST"
                      /\ GetAll(sent.headers, CONTENT_TYPE) = <<Unwrap(c.content_type)>>
                      /\ sent.body = c.body
                /\ c.fn = "get" => sent.method = "GET" /\ sent.body = <<>>
                /\ c.fn = "head" => sent.method = "HEAD" /\ sent.body = <<>>

\* a post with a body of two bytes has submitted its request
C13_Witness ==
    /\ IsSome(call)
    /\ Unwrap(call).fn = "post"
    /\ Unwrap(call).body = <<104, 105>>
    /\ Len(io.send) = 1

\* C15: a get, head or post call whose uri cannot be converted to a URI has
\* returned the invalid-URI error without entering send_request (no request,
\* no step of the pipeline) and without any call of the transport's connect.
C15_InvalidUriBeforeNetwork ==
    IsSome(call) /\ ~ParseUri(Unwrap(call).uri).ok =>
        /\ pc = "done"
        /\ result = Some(ErrInvalidUri)
        /\ req = NoneV
        /\ io = NoIo
        /\ io.connect = <<>>

\* the second call was given "h h", after a first call that opened a stream
C15_Witness ==
    /\ IsSome(call)
    /\ Unwrap(call).uri = <<"h", " ", "h">>
    /\ result = Some(ErrInvalidUri)
    /\ nstreams = 1

\* a step that is a call of build on the builder b
IsBuild == IsSome(builder) /\ builder' = NoneV

\* C14: build never leaves a field of the config empty: a field that was set
\* keeps the last value set, an unset field gets its default, and when the
\* default of an unset field cannot be constructed build returns an error
\* (kind ConfigError) and does not panic; with both fields set it returns Ok.
C14_BuildReturnsConfigError ==
    /\ [](IsSome(built) /\ Unwrap(built).ok =>
            /\ Unwrap(built).config.tls_config \in TlsConfigs \cup {DefaultConfig.tls_config}
            /\ Unwrap(built).config.tor_config \in TorConfigs \cup {DefaultConfig.tor_config})
    /\ [][IsBuild =>
            LET b == Unwrap(builder)
            IN  /\ panics' = panics
                /\ IsSome(built')
                /\ Unwrap(built').ok => Unwrap(built').config = BuiltConfig(b)
                /\ ~Unwrap(built').ok =>
                      /\ Unwrap(built').kind = "ConfigError"
                      /\ ~IsSome(b.tls_config) \/ ~IsSome(b.tor_config)
                /\ IsSome(b.tls_config) /\ IsSome(b.tor_config) => Unwrap(built').ok]_vars

\* C16: the request send_request submits has the method, the URI and the
\* body of the caller's request, and its headers are the caller's (name,
\* value) pairs, each one unaltered and in the caller's order, followed by
\* nothing or by one Host header.
C16_RequestPreserved ==
    \A i \in 1..Len(io.send) :
        LET r == Unwrap(req)
            sent == io.send[i].request
            extra == SubSeq(Iter(sent.headers), Len(Iter(r.headers)) + 1,
                            Len(Iter(sent.headers)))
        IN  /\ sent.method = r.method
            /\ sent.uri = r.uri
            /\ sent.body = r.body
            /\ IsPrefix(Iter(r.headers), Iter(sent.headers))
            /\ Len(extra) <= 1
            /\ \A k \in 1..Len(extra) : extra[k][1] = HOST

\* a request with an Accept header and a Host header, in this order, was
\* submitted
C16_Witness ==
    /\ Len(io.send) = 1
    /\ Iter(Unwrap(req).headers) = << <<ACCEPT, <<"t">> >>, <<HOST, <<"w">> >> >>

\* C19: no step of a get, head or post call, failed or not, changes the
\* Client: its Tor client and its config stay those of the construction, and
\* create_bootstrapped was called once, there; after any call the next one
\* can start, and it starts the pipeline anew (host, then connect, with no
\* stream and no connection held over).
C19_ClientUnchanged ==
    /\ [](/\ client = Some(NewClient(1, DefaultConfig))
          /\ ntor = 1
          /\ pc = "idle" /\ ncalls < MaxCalls =>
                /\ ENABLED (\E c \in Calls : ClientGet(c))
                /\ ENABLED (\E c \in Calls : ClientHead(c))
                /\ ENABLED (\E c \in Calls : ClientPost(c)))
    /\ [][/\ client' = client
           /\ ntor' = ntor
           /\ pc = "idle" /\ pc' = "connect" =>
                 /\ io'.order = <<"host", "connect">>
                 /\ stream' = NoneV
                 /\ conn' = NoneV]_vars

\* the second call has its response on the second stream, after a first
\* call that was given a stream and failed before its connection was made
C19_Witness ==
    /\ ncalls = 2
    /\ nstreams = 2
    /\ Len(conns) = 1
    /\ pc = "done"
    /\ result = Some(OkResponse)

\* C18: the task spawned for a connection is detached: no step of the
\* caller (abandoning the call, a failed send, a return) changes the state of
\* a driver; a driver ends only in a step of its own, taken when the wire has
\* closed or broken; and once the wire has closed or broken the driver does
\* end, the tasks being polled fairly.
C18_DriverDetached ==
    /\ [][\A id \in 1..Len(conns) :
            conns'[id].driver # conns[id].driver =>
                /\ conns[id].driver = "running"
                /\ conns'[id].driver \in {"finished", "failed"}
                /\ conns[id].wire \in {"closed", "error"}
                /\ pc' = pc
                /\ result' = result]_vars
    /\ \A id \in 1..MaxCalls :
          (id <= Len(conns) /\ conns[id].wire # "open")
              ~> (id <= Len(conns) /\ conns[id].driver # "running")

\* the caller abandoned the call while its request was pending; the driver
\* of the connection still runs
C18_Witness ==
    /\ pc = "abandoned"
    /\ IsSome(conn)
    /\ conns[Unwrap(conn)].sent = 1
    /\ conns[Unwrap(conn)].driver = "running"

\* a request is pending on connection id, unanswered, the wire open
Unanswered(id) ==
    /\ id <= Len(conns)
    /\ conns[id].pending
    /\ ~conns[id].answered
    /\ conns[id].wire = "open"

\* C20: a request was submitted only on a connection whose driver had been
\* spawned before, and a request is pending only while that driver runs;
\* so, the tasks being polled fairly, if the peer always answers a pending
\* request or ends the connection at last, a call that awaits the sender
\* leaves that await, and unless the caller abandoned it, it returns the
\* response or the error of the sender.
C20_InFlightProgress ==
    /\ [](/\ \A i \in 1..Len(io.send) :
                \E k \in 1..Len(io.order) :
                    /\ io.order[k] = "spawn"
                    /\ \E n \in k + 1..Len(io.order) : io.order[n] = "send"
          /\ \A id \in 1..Len(conns) :
                /\ conns[id].sent > 0 =>
                      conns[id].driver \in {"running", "finished", "failed"}
                /\ conns[id].pending => conns[id].driver = "running")
    /\ [][pc = "send" /\ pc' = "done" =>
            result' \in {Some(OkResponse), Some(ErrSend)}]_vars
    /\ (\A id \in 1..MaxCalls : []<>~Unanswered(id))
            => ((pc = "send") ~> (pc \in {"done", "abandoned"}))

\* the call has returned the response its driver handed to the sender
C20_Witness ==
    /\ pc = "done"
    /\ result = Some(OkResponse)
    /\ Did("response")
    /\ conns[Unwrap(conn)].driver = "running"

====
